---- MODULE Spec2Model ----
(***************************************************************************)
(* 8-bit MVE frame decoder (d2x-rebirth/libmve/decoder8.cpp).              *)
(*                                                                         *)
(* Pointers are modelled as byte offsets: pFrame is an offset from         *)
(* vBackBuf1 (the start of the buffer being written), a position in the    *)
(* historical buffer vBackBuf2 is the same offset in back2, pData is an    *)
(* offset into the payload and pMap an index into the opcode map.          *)
(* A read outside an array yields the byte lying next to it in memory      *)
(* (junk); any access outside an array may also end the process (crash).   *)
(***************************************************************************)
EXTENDS Integers, Sequences, FiniteSets, TLC

VARIABLES width, height, map, payload, junk, back2,
          frame, pFrame, pMap, pData, dataRemain, i, j, m, pc,
          diag, hist, last

vars == <<width, height, map, payload, junk, back2,
          frame, pFrame, pMap, pData, dataRemain, i, j, m, pc,
          diag, hist, last>>

(***************************************************************************)
(* Bounds of the model.                                                    *)
(***************************************************************************)
\* largest number of 8-pixel block columns / block rows of a frame
MaxXb == 4
MaxYb == 2
\* length of the longest payload supplied
MaxPay == 66

(***************************************************************************)
(* Bit arithmetic on bytes.                                                *)
(***************************************************************************)
RECURSIVE Pow2(_)
Pow2(n) == IF n = 0 THEN 1 ELSE 2 * Pow2(n - 1)

\* (v >> n) & 1
BitAt(v, n) == (v \div Pow2(n)) % 2
\* (v >> n) & 3
Bits2At(v, n) == (v \div Pow2(n)) % 4
\* static_cast<int8_t>(b)
Int8(b) == IF b >= 128 THEN b - 256 ELSE b

\* <<off, val>> writes of a filler, in program order
Wr(off, val) == <<off, val>>

RECURSIVE Flatten(_)
Flatten(ss) == IF ss = <<>> THEN <<>> ELSE Head(ss) \o Flatten(Tail(ss))

(***************************************************************************)
(* Pattern fillers: each yields the sequence of stores it performs.        *)
(* p is the colour array (p[1] is the code's p[0]).                        *)
(***************************************************************************)
\* patternRow4Pixels taking the bit pairs of the pattern from the top down
patternRow4Pixels_msbFirst(pos, pat0, pat1, p) ==
    LET pattern == pat1 * 256 + pat0
    IN  [n \in 1..8 |-> Wr(pos + (n - 1), p[Bits2At(pattern, 2 * (8 - n)) + 1])]

patternRow4Pixels(pos, pat0, pat1, p) ==
    LET pattern == pat1 * 256 + pat0
    IN  [n \in 1..8 |-> Wr(pos + (n - 1), p[Bits2At(pattern, 2 * (n - 1)) + 1])]

patternRow4Pixels2(w, pos, pat0, p) ==
    Flatten([n \in 1..4 |->
        LET pel == p[Bits2At(pat0, 2 * (n - 1)) + 1]
            at  == pos + 2 * (n - 1)
        IN  <<Wr(at, pel), Wr(at + 1, pel), Wr(at + w, pel), Wr(at + w + 1, pel)>>])

patternRow4Pixels2x1(pos, pat, p) ==
    Flatten([n \in 1..4 |->
        LET pel == p[Bits2At(pat, 2 * (n - 1)) + 1]
            at  == pos + 2 * (n - 1)
        IN  <<Wr(at, pel), Wr(at + 1, pel)>>])

\* pat is pat3:pat2:pat1:pat0; unit k (0..15) is selected by bits 2k, 2k+1,
\* i.e. by bit pair (k % 4) of byte k \div 4
patternQuadrant4Pixels(w, pos, pat0, pat1, pat2, pat3, p) ==
    LET pat == <<pat0, pat1, pat2, pat3>>
    IN  [n \in 1..16 |->
           LET k == n - 1
           IN  Wr(pos + (k \div 4) * w + (k % 4),
                  p[Bits2At(pat[(k \div 4) + 1], 2 * (k % 4)) + 1])]

\* patternRow2Pixels leaving the eighth pixel of the row alone
patternRow2Pixels_seven(pos, pat, p) ==
    [n \in 1..7 |-> Wr(pos + (n - 1), p[BitAt(pat, n - 1) + 1])]

patternRow2Pixels(pos, pat, p) ==
    [n \in 1..8 |-> Wr(pos + (n - 1), p[BitAt(pat, n - 1) + 1])]

\* patternRow2Pixels2 taking the bits of the nibble from the top down
patternRow2Pixels2_msbFirst(w, pos, pat, p) ==
    Flatten([n \in 1..4 |->
        LET pel == p[BitAt(pat, 4 - n) + 1]
            at  == pos + 2 * (n - 1)
        IN  <<Wr(at, pel), Wr(at + 1, pel), Wr(at + w, pel), Wr(at + w + 1, pel)>>])

patternRow2Pixels2(w, pos, pat, p) ==
    Flatten([n \in 1..4 |->
        LET pel == p[BitAt(pat, n - 1) + 1]
            at  == pos + 2 * (n - 1)
        IN  <<Wr(at, pel), Wr(at + 1, pel), Wr(at + w, pel), Wr(at + w + 1, pel)>>])

\* patternQuadrant2Pixels walking the quadrant column by column
patternQuadrant2Pixels_transposed(w, pos, pat0, pat1, p) ==
    LET pat == pat1 * 256 + pat0
    IN  [n \in 1..16 |->
           LET k == n - 1
           IN  Wr(pos + (k \div 4) + (k % 4) * w, p[BitAt(pat, k) + 1])]

patternQuadrant2Pixels(w, pos, pat0, pat1, p) ==
    LET pat == pat1 * 256 + pat0
    IN  [n \in 1..16 |->
           LET k == n - 1
           IN  Wr(pos + (k % 4) + (k \div 4) * w, p[BitAt(pat, k) + 1])]

(***************************************************************************)
(* Memory access.                                                          *)
(***************************************************************************)
\* (*pData)[k - pData], k an offset into the payload
D(k) == IF k >= 0 /\ k < Len(payload) THEN payload[k + 1] ELSE junk

Peek(buf, o) == IF o \in DOMAIN buf THEN buf[o] ELSE junk

Offsets(ws) == {ws[k][1] : k \in DOMAIN ws}

\* the stores ws applied to f in order: a byte stored to more than once
\* keeps the last value stored
Apply(f, ws) ==
    LET offs == Offsets(ws)
        LastTo(o) == LET K == {k \in DOMAIN ws : ws[k][1] = o}
                     IN  ws[CHOOSE k \in K : \A k2 \in K : k2 <= k][2]
    IN  [o \in DOMAIN f |-> IF o \in offs THEN LastTo(o) ELSE f[o]]

\* the body of a counted loop, iterations 0..n-1, as one store sequence
Loop(n, Body(_)) == Flatten([k \in 1..n |-> Body(k - 1)])

\* copyFrame: 8 rows copied top to bottom, each by std::copy_n(pSrc, 8,
\* pDest) (the 8 bytes of a row are read before any of them is stored).
\* cur = the source lies in the buffer being written, so that a byte stored
\* by an earlier row of this copy is read back; otherwise the source is the
\* historical buffer.  V[r, c] is the byte copied to row r, column c.
copyFrame(w, f, cur, pDest, pSrc) ==
    LET V[rc \in (0..7) \X (0..7)] ==
            LET s == pSrc + rc[1] * w + rc[2]
                E == {e \in (0..7) \X (0..7) :
                        e[1] < rc[1] /\ pDest + e[1] * w + e[2] = s}
            IN  IF cur
                THEN IF E # {}
                     THEN V[CHOOSE e \in E : \A e2 \in E : e2[1] <= e[1]]
                     ELSE Peek(f, s)
                ELSE Peek(back2, s)
    IN  [n \in 1..64 |->
           Wr(pDest + ((n - 1) \div 8) * w + ((n - 1) % 8),
              V[<<(n - 1) \div 8, (n - 1) % 8>>])]

\* the 64 offsets of the 8x8 block whose top-left byte is at o
Block(w, o) == {o + r * w + c : r \in 0..7, c \in 0..7}

\* relClose with the two nibbles exchanged
relClose_swapped(b) == [x |-> (b \div 16) - 8, y |-> (b % 16) - 8]

relClose(b) == [x |-> (b % 16) - 8, y |-> (b \div 16) - 8]

\* relFar with the row displacement of the near range taken as b / 8
relFar_div8(b, sign) ==
    IF b < 56
    THEN [x |-> sign * (8 + (b % 7)), y |-> sign * (b \div 8)]
    ELSE [x |-> sign * (-14 + ((b - 56) % 29)), y |-> sign * (8 + ((b - 56) \div 29))]

relFar(b, sign) ==
    IF b < 56
    THEN [x |-> sign * (8 + (b % 7)), y |-> sign * (b \div 7)]
    ELSE [x |-> sign * (-14 + ((b - 56) % 29)), y |-> sign * (8 + ((b - 56) \div 29))]

(***************************************************************************)
(* The sixteen encodings.  Each yields                                     *)
(*   kind   "copy" (copyFrame from src, cur as above), "pat" (the stores   *)
(*          ws) or "skip";                                                 *)
(*   pFrame the write cursor on return;                                    *)
(*   n      the number of bytes by which *pData advanced;                  *)
(*   dec    the amount subtracted from *pDataRemain.                       *)
(***************************************************************************)
Copy(cur, src, pf, n, dec) ==
    [kind |-> "copy", cur |-> cur, src |-> src, ws |-> <<>>,
     pFrame |-> pf, n |-> n, dec |-> dec]

Pat(ws, pf, n, dec) ==
    [kind |-> "pat", cur |-> FALSE, src |-> 0, ws |-> ws,
     pFrame |-> pf, n |-> n, dec |-> dec]

\* vBackBuf2 - vBackBuf1 added to *pFrame: the same offset in back2
Op0(pf, pd) == Copy(FALSE, pf, pf + 8, 0, 0)

\* Op1 copying from the other buffer as case 0x0 does
Op1_copy(pf, pd) == Copy(FALSE, pf, pf + 8, 0, 0)

Op1(pf, pd) == Pat(<<>>, pf + 8, 0, 0)

Op2(pf, pd) ==
    LET r == relFar(D(pd), 1)
    IN  Copy(TRUE, pf + r.x + r.y * width, pf + 8, 1, 1)

Op3(pf, pd) ==
    LET r == relFar(D(pd), -1)
    IN  Copy(TRUE, pf + r.x + r.y * width, pf + 8, 1, 1)

Op4(pf, pd) ==
    LET r == relClose(D(pd))
    IN  Copy(FALSE, pf + r.x + r.y * width, pf + 8, 1, 1)

\* Op5 taking both displacements from a single payload byte
Op5_oneByte(pf, pd) ==
    LET x == Int8(D(pd))
    IN  Copy(FALSE, pf + x + x * width, pf + 8, 1, 1)

Op5(pf, pd) ==
    LET x == Int8(D(pd))
        y == Int8(D(pd + 1))
    IN  Copy(FALSE, pf + x + y * width, pf + 8, 2, 2)

\* one iteration of the loop of case 0x6; s.ret = the case has returned
SkipStep(s) ==
    IF s.ret THEN s
    ELSE LET pf1 == s.pFrame + 16
             x1  == s.curXb + 1
         IN  IF x1 = width \div 8
             THEN [pFrame |-> pf1 + 7 * width, curXb |-> 0, curYb |-> s.curYb + 1,
                   ret |-> (s.curYb + 1 = height \div 8)]
             ELSE [pFrame |-> pf1, curXb |-> x1, curYb |-> s.curYb, ret |-> FALSE]

Op6(pf, xb, yb) ==
    SkipStep(SkipStep([pFrame |-> pf, curXb |-> xb, curYb |-> yb, ret |-> FALSE]))

Op7(pf, pd) ==
    LET p == <<D(pd), D(pd + 1)>>
        w == width
    IN  IF p[1] <= p[2]
        THEN LET Row(r) == patternRow2Pixels(pf + r * w, D(pd + 2 + r), p)
             IN  Pat(Loop(8, Row), (pf + 8 * w) - (8 * w - 8), 10, 0)
        ELSE LET Band(k) ==
                     patternRow2Pixels2(w, pf + (2 * k) * (2 * w), D(pd + 2 + k) % 16, p)
                  \o patternRow2Pixels2(w, pf + (2 * k + 1) * (2 * w), D(pd + 2 + k) \div 16, p)
             IN  Pat(Loop(2, Band), (pf + 4 * (2 * w)) - (8 * w - 8), 4, 0)

\* write position of quadrant q (0..3) in the loops that alternate between
\* moving down 4 rows and moving up 4 rows and right 4 columns;
\* QuadPos(pf, w, 4) is the position the loop ends at
\* QuadPos with the "up and right" move of the odd quadrants left out
QuadPos_downOnly(pf, w, q) == pf + q * (4 * w)

RECURSIVE QuadPos(_, _, _)
QuadPos(pf, w, q) ==
    IF q = 0 THEN pf
    ELSE IF (q - 1) % 2 = 1
         THEN QuadPos(pf, w, q - 1) + 4 - 4 * w
         ELSE QuadPos(pf, w, q - 1) + 4 * w

\* Op8 decoding the block as case 0x7 does
Op8_asOp7(pf, pd) == Op7(pf, pd)

Op8(pf, pd) ==
    LET w == width
    IN  IF D(pd) <= D(pd + 1)
        THEN \* four quadrant case
             LET Q(q) == patternQuadrant2Pixels(w, QuadPos(pf, w, q),
                              D(pd + 4 * q + 2), D(pd + 4 * q + 3),
                              <<D(pd + 4 * q), D(pd + 4 * q + 1)>>)
             IN  Pat(Loop(4, Q), QuadPos(pf, w, 4), 16, 0)
        ELSE IF D(pd + 6) <= D(pd + 7)
        THEN \* "split horizontal": colours are read before quadrants 0 and 2
             LET Q(q) == LET b == 6 * (q \div 2)
                         IN  patternQuadrant2Pixels(w, QuadPos(pf, w, q),
                                 D(pd + b + 2 + 2 * (q % 2)), D(pd + b + 3 + 2 * (q % 2)),
                                 <<D(pd + b), D(pd + b + 1)>>)
             IN  Pat(Loop(4, Q), QuadPos(pf, w, 4), 12, 0)
        ELSE \* "split vertical": colours are read before rows 0 and 4
             LET Row(r) == LET b == 6 * (r \div 4)
                           IN  patternRow2Pixels(pf + r * w, D(pd + b + 2 + (r % 4)),
                                                 <<D(pd + b), D(pd + b + 1)>>)
             IN  Pat(Loop(8, Row), (pf + 8 * w) - (8 * w - 8), 12, 0)

\* Op9 decoding the block as case 0x8 does
Op9_asOp8(pf, pd) == Op8(pf, pd)

Op9(pf, pd) ==
    LET w == width
        p == <<D(pd), D(pd + 1), D(pd + 2), D(pd + 3)>>
    IN  IF D(pd) <= D(pd + 1)
        THEN IF D(pd + 2) <= D(pd + 3)
             THEN LET Row(r) == patternRow4Pixels(pf + r * w, D(pd + 4 + 2 * r),
                                                  D(pd + 5 + 2 * r), p)
                  IN  Pat(Loop(8, Row), (pf + 8 * w) - (8 * w - 8), 20, 0)
             ELSE LET Band(k) == patternRow4Pixels2(w, pf + k * (2 * w), D(pd + 4 + k), p)
                  IN  Pat(Loop(4, Band), (pf + 3 * (2 * w)) - (6 * w - 8), 8, 0)
        ELSE IF D(pd + 2) <= D(pd + 3)
             THEN \* draw 2x1 strips
                  LET Row(r) == patternRow4Pixels2x1(pf + r * w, D(pd + 4 + r), p)
                  IN  Pat(Loop(8, Row), (pf + 8 * w) - (8 * w - 8), 12, 0)
             ELSE \* draw 1x2 strips
                  LET Band(k) ==
                          patternRow4Pixels(pf + (2 * k) * w, D(pd + 4 + 2 * k),
                                            D(pd + 5 + 2 * k), p)
                       \o patternRow4Pixels(pf + (2 * k + 1) * w, D(pd + 4 + 2 * k),
                                            D(pd + 5 + 2 * k), p)
                  IN  Pat(Loop(4, Band), (pf + 8 * w) - (8 * w - 8), 12, 0)

\* OpA choosing between its two half layouts the other way round
OpA_splitSwapped(pf, pd) ==
    LET w == width
        P(b) == <<D(pd + b), D(pd + b + 1), D(pd + b + 2), D(pd + b + 3)>>
    IN  IF D(pd) <= D(pd + 1)
        THEN LET Q(q) == LET b == 8 * q
                         IN  patternQuadrant4Pixels(w, QuadPos(pf, w, q),
                                 D(pd + b + 4), D(pd + b + 5), D(pd + b + 6), D(pd + b + 7),
                                 P(b))
             IN  Pat(Loop(4, Q), QuadPos(pf, w, 4), 32, 0)
        ELSE IF D(pd + 12) > D(pd + 13)
        THEN \* "split vertical": colours are read before quadrants 0 and 2
             LET Q(q) == LET b == 12 * (q \div 2)
                             c == b + 4 + 4 * (q % 2)
                         IN  patternQuadrant4Pixels(w, QuadPos(pf, w, q),
                                 D(pd + c), D(pd + c + 1), D(pd + c + 2), D(pd + c + 3),
                                 P(b))
             IN  Pat(Loop(4, Q), QuadPos(pf, w, 4), 24, 0)
        ELSE \* "split horizontal": colours are read before rows 0 and 4
             LET Row(r) == LET b == 12 * (r \div 4)
                               c == b + 4 + 2 * (r % 4)
                           IN  patternRow4Pixels(pf + r * w, D(pd + c), D(pd + c + 1), P(b))
             IN  Pat(Loop(8, Row), (pf + 8 * w) - (8 * w - 8), 24, 0)

OpA(pf, pd) ==
    LET w == width
        P(b) == <<D(pd + b), D(pd + b + 1), D(pd + b + 2), D(pd + b + 3)>>
    IN  IF D(pd) <= D(pd + 1)
        THEN LET Q(q) == LET b == 8 * q
                         IN  patternQuadrant4Pixels(w, QuadPos(pf, w, q),
                                 D(pd + b + 4), D(pd + b + 5), D(pd + b + 6), D(pd + b + 7),
                                 P(b))
             IN  Pat(Loop(4, Q), QuadPos(pf, w, 4), 32, 0)
        ELSE IF D(pd + 12) <= D(pd + 13)
        THEN \* "split vertical": colours are read before quadrants 0 and 2
             LET Q(q) == LET b == 12 * (q \div 2)
                             c == b + 4 + 4 * (q % 2)
                         IN  patternQuadrant4Pixels(w, QuadPos(pf, w, q),
                                 D(pd + c), D(pd + c + 1), D(pd + c + 2), D(pd + c + 3),
                                 P(b))
             IN  Pat(Loop(4, Q), QuadPos(pf, w, 4), 24, 0)
        ELSE \* "split horizontal": colours are read before rows 0 and 4
             LET Row(r) == LET b == 12 * (r \div 4)
                               c == b + 4 + 2 * (r % 4)
                           IN  patternRow4Pixels(pf + r * w, D(pd + c), D(pd + c + 1), P(b))
             IN  Pat(Loop(8, Row), (pf + 8 * w) - (8 * w - 8), 24, 0)

\* OpB storing the payload bytes column by column
OpB_colMajor(pf, pd) ==
    LET w == width
        Row(r) == [c \in 1..8 |-> Wr(pf + r * w + (c - 1), D(pd + 8 * (c - 1) + r))]
    IN  Pat(Loop(8, Row), (pf + 8 * w) - (8 * w - 8), 8 * 8, 8 * 8)

OpB(pf, pd) ==
    LET w == width
        Row(r) == [c \in 1..8 |-> Wr(pf + r * w + (c - 1), D(pd + 8 * r + (c - 1)))]
    IN  Pat(Loop(8, Row), (pf + 8 * w) - (8 * w - 8), 8 * 8, 8 * 8)

OpC(pf, pd) ==
    LET w == width
        Row(r) == Flatten([k \in 1..4 |->
                      <<Wr(pf + r * w + 2 * (k - 1), D(pd + 4 * (r \div 2) + (k - 1))),
                        Wr(pf + r * w + 2 * (k - 1) + 1, D(pd + 4 * (r \div 2) + (k - 1)))>>])
    IN  Pat(Loop(8, Row), (pf + 8 * w) - (8 * w - 8), 4 * 4, 4 * 4)

OpD(pf, pd) ==
    LET w == width
        Cell(h, n) == \* iteration j = n \div 4, k = n % 4 of half h
            <<Wr(pf + h * (4 * w) + (n % 4) * w + (n \div 4), D(pd + 2 * h)),
              Wr(pf + h * (4 * w) + (n % 4) * w + (n \div 4) + 4, D(pd + 2 * h + 1))>>
        Half(h) == Flatten([n \in 1..16 |-> Cell(h, n - 1)])
    IN  Pat(Loop(2, Half), (pf + 2 * (4 * w)) - (8 * w - 8), 2 * 2, 2 * 2)

OpE(pf, pd) ==
    LET w == width
        pel == D(pd)
        Row(r) == [c \in 1..8 |-> Wr(pf + r * w + (c - 1), pel)]
    IN  Pat(Loop(8, Row), (pf + 8 * w) - (8 * w - 8), 1, 1)

\* OpF alternating the two colours along the rows only
OpF_stripes(pf, pd) ==
    LET w == width
        Row(r) == [c \in 1..8 |-> Wr(pf + r * w + (c - 1), D(pd + ((c - 1) % 2)))]
    IN  Pat(Loop(8, Row), (pf + 8 * w) - (8 * w - 8), 2, 2)

OpF(pf, pd) ==
    LET w == width
        Row(r) == [c \in 1..8 |-> Wr(pf + r * w + (c - 1), D(pd + ((r + (c - 1)) % 2)))]
    IN  Pat(Loop(8, Row), (pf + 8 * w) - (8 * w - 8), 2, 2)

(***************************************************************************)
(* dispatchDecoder: one opcode applied at write cursor pf, payload cursor  *)
(* pd, remaining count rem, with the walker's loop indices xb, yb (the     *)
(* code's *curXb, *curYb, which point at decodeFrame8's i and j).          *)
(* Besides the values left in the output parameters the result names what  *)
(* the call touched: wr the offsets stored to, rdSrc the offsets read as   *)
(* copy source (in the current buffer if srcCur, else in back2), rdData    *)
(* the payload offsets read; ret = case 0x6 left through its return.       *)
(***************************************************************************)
Encoding(codeType, pf, pd) ==
    CASE codeType = 0  -> Op0(pf, pd)
      [] codeType = 1  -> Op1(pf, pd)
      [] codeType = 2  -> Op2(pf, pd)
      [] codeType = 3  -> Op3(pf, pd)
      [] codeType = 4  -> Op4(pf, pd)
      [] codeType = 5  -> Op5(pf, pd)
      [] codeType = 7  -> Op7(pf, pd)
      [] codeType = 8  -> Op8(pf, pd)
      [] codeType = 9  -> Op9(pf, pd)
      [] codeType = 10 -> OpA(pf, pd)
      [] codeType = 11 -> OpB(pf, pd)
      [] codeType = 12 -> OpC(pf, pd)
      [] codeType = 13 -> OpD(pf, pd)
      [] codeType = 14 -> OpE(pf, pd)
      [] codeType = 15 -> OpF(pf, pd)

\* what the encoding e leaves behind when run at pf on frame f
Outcome(e, f, pf, pd, rem, xb, yb) ==
    LET ws == IF e.kind = "copy"
              THEN copyFrame(width, f, e.cur, pf, e.src)
              ELSE e.ws
    IN  [frame |-> Apply(f, ws),
         pFrame |-> e.pFrame, pData |-> pd + e.n, dataRemain |-> rem - e.dec,
         curXb |-> xb, curYb |-> yb, ret |-> FALSE,
         wr |-> Offsets(ws),
         rdSrc |-> IF e.kind = "copy" THEN Block(width, e.src) ELSE {},
         srcCur |-> e.cur,
         rdData |-> pd .. (pd + e.n - 1)]

\* the skip s of case 0x6: nothing stored, nothing read
Skipped(s, f, pd, rem) ==
    [frame |-> f, pFrame |-> s.pFrame, pData |-> pd, dataRemain |-> rem,
     curXb |-> s.curXb, curYb |-> s.curYb, ret |-> s.ret,
     wr |-> {}, rdSrc |-> {}, srcCur |-> FALSE, rdData |-> {}]

dispatchDecoder(f, pf, codeType, pd, rem, xb, yb) ==
    IF codeType = 6
    THEN Skipped(Op6(pf, xb, yb), f, pd, rem)
    ELSE Outcome(Encoding(codeType, pf, pd), f, pf, pd, rem, xb, yb)

(***************************************************************************)
(* Inputs of one decodeFrame8 call.                                        *)
(***************************************************************************)
\* opcode-map bytes supplied: every opcode occurs, 0x6 in either nibble
\* (0x10 0x32 0x54 0x76 0x98 0xba 0xdc 0xfe 0x6e 0x66 0xe1 0x1b 0x11)
MapBytes == {16, 50, 84, 118, 152, 186, 220, 254, 110, 102, 225, 27, 17}
\* (0x11 0x33 0x66 0x97)
MapBytes2 == {17, 51, 102, 151}

\* the map alternates a byte of MapBytes and a byte of MapBytes2
MapOf(n, a, b) == [k \in 1..n |-> IF k % 2 = 1 THEN a ELSE b]

\* payloads repeat a 5-byte seed, up to length n; junk is the byte found in
\* memory outside the arrays
PayOf(n, seed) == [k \in 1..n |-> seed[((k - 1) % 5) + 1]]

Supplied ==
    {[n |-> 1,      seed |-> <<5, 5, 5, 5, 5>>,        junk |-> 0],
     [n |-> 13,     seed |-> <<10, 200, 60, 3, 131>>,  junk |-> 171],
     [n |-> 13,     seed |-> <<152, 253, 1, 0, 7>>,    junk |-> 0],
     [n |-> MaxPay, seed |-> <<5, 5, 5, 5, 5>>,        junk |-> 0],
     [n |-> MaxPay, seed |-> <<10, 200, 60, 3, 131>>,  junk |-> 171],
     [n |-> MaxPay, seed |-> <<250, 17, 0, 90, 45>>,   junk |-> 0],
     [n |-> MaxPay, seed |-> <<1, 2, 3, 4, 9>>,        junk |-> 171],
     [n |-> MaxPay, seed |-> <<77, 33, 34, 180, 179>>, junk |-> 0],
     [n |-> MaxPay, seed |-> <<200, 100, 50, 25, 12>>, junk |-> 171]}

\* the content of the buffer being written (vBackBuf1) on entry
Prior(w, h) == [o \in 0..(w * h - 1) |-> (3 * o + 1) % 256]
\* the content of the other buffer (vBackBuf2)
Historical(w, h) == [o \in 0..(w * h - 1) |-> (7 * o + 2) % 251]

\* last: the most recent dispatchDecoder call (op = -1: none yet), with the
\* values on entry (at = write cursor, pData, dataRemain, i, j, mp = index
\* of the map byte), the write cursor on return (after) and what it touched
NoCall == [op |-> -1, nib |-> 0, at |-> 0, after |-> 0, mp |-> 0, i |-> 0, j |-> 0,
           pData |-> 0, dataRemain |-> 0, ret |-> FALSE,
           wr |-> {}, rdSrc |-> {}, srcCur |-> FALSE, rdData |-> {}]

\* lines 33-34
Xb == width \div 8
Yb == height \div 8

\* position in decodeFrame8 once the loop tests at indices i0, j0 are made
LoopPc(i0, j0, w, h) ==
    IF j0 < h \div 8
    THEN IF i0 < (w \div 8) \div 2 THEN "lo" ELSE "rowend"
    ELSE "done"

Init ==
    /\ \E xb \in 1..MaxXb, yb \in 1..MaxYb :
          /\ width = 8 * xb
          /\ height = 8 * yb
          /\ \E a \in MapBytes, b \in MapBytes2 :
                map = MapOf((xb * yb) \div 2, a, b)
    /\ \E in \in Supplied :
          /\ payload = PayOf(in.n, in.seed)
          /\ junk = in.junk
    /\ back2 = Historical(width, height)
    /\ frame = Prior(width, height)
    /\ pFrame = 0
    /\ pMap = 1
    /\ pData = 0
    /\ dataRemain = Len(payload)
    /\ i = 0
    /\ j = 0
    /\ m = 0
    /\ pc = LoopPc(0, 0, width, height)
    /\ diag = <<>>
    /\ hist = <<>>
    /\ last = NoCall

(***************************************************************************)
(* decodeFrame8.                                                           *)
(***************************************************************************)
InFrame(o) == o >= 0 /\ o < width * height

\* the call r reached outside an array
Strays(r) ==
    \/ \E o \in r.wr : ~InFrame(o)
    \/ \E o \in r.rdSrc : ~InFrame(o)
    \/ \E k \in r.rdData : k >= Len(payload)

\* the walker's state once the call has left r in the output parameters
Returned(r, codeType, nib, after, stray) ==
    /\ frame' = r.frame
    /\ pFrame' = r.pFrame
    /\ pData' = r.pData
    /\ dataRemain' = r.dataRemain
    /\ i' = r.curXb
    /\ j' = r.curYb
    /\ last' = [op |-> codeType, nib |-> nib, at |-> pFrame, after |-> r.pFrame,
                mp |-> pMap, i |-> i, j |-> j,
                pData |-> pData, dataRemain |-> dataRemain,
                ret |-> r.ret, wr |-> r.wr, rdSrc |-> r.rdSrc,
                srcCur |-> r.srcCur, rdData |-> r.rdData]
    /\ hist' = Append(hist, [op |-> codeType, nib |-> nib, at |-> pFrame,
                             after |-> r.pFrame, mp |-> pMap, i |-> i, j |-> j,
                             ret |-> r.ret])
    /\ IF stray \/ Strays(r) THEN pc' \in {after, "crash"} ELSE pc' = after

Dispatch(codeType, nib, after, stray) ==
    \E r \in {dispatchDecoder(frame, pFrame, codeType, pData, dataRemain, i, j)} :
        Returned(r, codeType, nib, after, stray)

\* DispatchLo taking the high nibble first
DispatchLo_hiFirst ==
    /\ pc = "lo"
    /\ m' = IF pMap <= Len(map) THEN map[pMap] ELSE junk
    /\ Dispatch(m' \div 16, 1, "chk1", pMap > Len(map))
    /\ UNCHANGED <<width, height, map, payload, junk, back2, pMap, diag>>

\* line 39-40: m = pMap.front(); dispatch of m & 0xf
DispatchLo ==
    /\ pc = "lo"
    /\ m' = IF pMap <= Len(map) THEN map[pMap] ELSE junk
    /\ Dispatch(m' % 16, 1, "chk1", pMap > Len(map))
    /\ UNCHANGED <<width, height, map, payload, junk, back2, pMap, diag>>

Danger(below, which, codeType) ==
    [below |-> below, i |-> i, j |-> j, which |-> which, op |-> codeType]

\* Check returning from decodeFrame8 once it has logged
Check_abort(which, codeType, after) ==
    /\ diag' = IF pFrame < 0
               THEN Append(diag, Danger(TRUE, which, codeType))
               ELSE IF pFrame >= 0 + width * height
               THEN Append(diag, Danger(FALSE, which, codeType))
               ELSE diag
    /\ pc' = IF diag' # diag THEN "done" ELSE after
    /\ UNCHANGED <<width, height, map, payload, junk, back2, frame, pFrame, pMap,
                   pData, dataRemain, i, j, m, hist, last>>

Check(which, codeType, after) ==
    /\ diag' = IF pFrame < 0
               THEN Append(diag, Danger(TRUE, which, codeType))
               ELSE IF pFrame >= 0 + width * height
               THEN Append(diag, Danger(FALSE, which, codeType))
               ELSE diag
    /\ pc' = after
    /\ UNCHANGED <<width, height, map, payload, junk, back2, frame, pFrame, pMap,
                   pData, dataRemain, i, j, m, hist, last>>

\* lines 41-44
CheckLo == pc = "chk1" /\ Check(1, m % 16, "hi")

\* line 45: dispatch of m >> 4
DispatchHi ==
    /\ pc = "hi"
    /\ Dispatch(m \div 16, 2, "chk2", FALSE)
    /\ UNCHANGED <<width, height, map, payload, junk, back2, pMap, m, diag>>

\* lines 46-49
CheckHi == pc = "chk2" /\ Check(2, m \div 16, "next")

\* line 51 and the inner loop's i++ and test
NextMap ==
    /\ pc = "next"
    /\ pMap' = pMap + 1
    /\ i' = i + 1
    /\ pc' = IF i' < (width \div 8) \div 2 THEN "lo" ELSE "rowend"
    /\ UNCHANGED <<width, height, map, payload, junk, back2, frame, pFrame,
                   pData, dataRemain, j, m, diag, hist, last>>

\* RowEnd jumping a whole band of 8 rows
RowEnd_fullBand ==
    /\ pc = "rowend"
    /\ pFrame' = pFrame + 8 * width
    /\ j' = j + 1
    /\ i' = IF j' < height \div 8 THEN 0 ELSE i
    /\ pc' = LoopPc(0, j', width, height)
    /\ UNCHANGED <<width, height, map, payload, junk, back2, frame, pMap,
                   pData, dataRemain, m, diag, hist, last>>

\* line 53, the outer loop's j++ and test, and the inner loop's i = 0 and test
RowEnd ==
    /\ pc = "rowend"
    /\ pFrame' = pFrame + 7 * width
    /\ j' = j + 1
    /\ i' = IF j' < height \div 8 THEN 0 ELSE i
    /\ pc' = LoopPc(0, j', width, height)
    /\ UNCHANGED <<width, height, map, payload, junk, back2, frame, pMap,
                   pData, dataRemain, m, diag, hist, last>>

Next == DispatchLo \/ CheckLo \/ DispatchHi \/ CheckHi \/ NextMap \/ RowEnd

Spec == Init /\ [][Next]_vars

(***************************************************************************)
(* Properties.                                                             *)
(***************************************************************************)
\* no dispatched opcode so far was 0x6
NoSkip == \A k \in 1..Len(hist) : hist[k].op # 6

\* write-cursor offsets of the top-left bytes of the 8x8 blocks of the grid
GridOrigins == {8 * by * width + 8 * bx : bx \in 0..(Xb - 1), by \in 0..(Yb - 1)}

\* raster index of the block whose top-left byte is at o, and its inverse
RasterIdx(o) == (o \div (8 * width)) * Xb + ((o % width) \div 8)
RasterPos(n) == (n \div Xb) * (8 * width) + (n % Xb) * 8

\* the last call read a payload byte at or beyond the end of the payload
OverranPayload == \E k \in last.rdData : k >= Len(payload)

Walking == pc \in {"lo", "chk1", "hi", "chk2", "next", "rowend"}

\* C1: every dispatchDecoder call decreases the remaining-length counter by
\* exactly the number of bytes by which it advances the payload cursor, so
\* that the initial count minus the counter is the number of bytes consumed.
\* (Stated of the decodes that have stayed inside the payload.)
C1_PayloadAccounting ==
    pData <= Len(payload) =>
        /\ last.op # -1 => last.dataRemain - dataRemain = pData - last.pData
        /\ Len(payload) - dataRemain = pData

\* C2: no call stores a byte at an offset outside [0, width*height) of the
\* destination buffer.  (Stated of the decodes that have stayed inside the
\* payload.)
C2_NoWriteOutOfBounds ==
    (pData <= Len(payload) /\ pc # "crash") => \A o \in last.wr : InFrame(o)

\* C3: once a call has read a payload byte at or beyond the end of the
\* payload, the frame decode is over (it does not go on walking the grid).
C3_PayloadOverrunAborts == OverranPayload => ~Walking

\* C4: each of the two checks made for a map byte logs one diagnostic,
\* naming the opcode just dispatched, if and only if the write cursor is
\* outside [0, width*height); logged or not, the decode goes on to the next
\* dispatch (the high nibble after the first check, the loop's next step
\* after the second); nothing else logs.
C4_DiagnosticWithoutAbort ==
    [][ /\ pc = "chk1" => pc' = "hi"
        /\ pc = "chk2" => pc' = "next"
        /\ pc \in {"chk1", "chk2"} =>
              IF InFrame(pFrame)
              THEN diag' = diag
              ELSE /\ Len(diag') = Len(diag) + 1
                   /\ SubSeq(diag', 1, Len(diag)) = diag
                   /\ diag'[Len(diag')].op = last.op
                   /\ diag'[Len(diag')].below = (pFrame < 0)
        /\ pc \notin {"chk1", "chk2"} => diag' = diag ]_vars

\* a diagnostic has just been logged by the first check and the high nibble
\* is about to be dispatched
C4_Witness ==
    /\ pc = "hi"
    /\ ~InFrame(pFrame)
    /\ diag # <<>>
    /\ diag[Len(diag)].which = 1

\* C5: for a map without opcode 0x6, a finished decode has dispatched
\* exactly (width/8)*(height/8) opcodes, one at each 8x8 block of the grid.
C5_FullGridCoverage ==
    (pc = "done" /\ NoSkip) =>
        /\ Len(hist) = Xb * Yb
        /\ {hist[k].at : k \in 1..Len(hist)} = GridOrigins

\* C6: the k-th dispatch takes its opcode from map byte (k+1) div 2 (of the
\* bytes the map holds), the low nibble if k is odd and the high nibble if
\* k is even; the high nibble is
\* dispatched for the block right of the low nibble's block (when the low
\* nibble did not skip); and with width 16, height 8, map byte 0xe1 and
\* payload 0x05 the left block keeps its prior content and all 64 pixels of
\* the right block are 5.
C6_NibbleOrder ==
    /\ \A k \in 1..Len(hist) :
          /\ hist[k].mp = (k + 1) \div 2
          /\ hist[k].nib = (IF k % 2 = 1 THEN 1 ELSE 2)
          /\ hist[k].mp \in DOMAIN map =>
                hist[k].op = (IF k % 2 = 1 THEN map[hist[k].mp] % 16
                                           ELSE map[hist[k].mp] \div 16)
          /\ (k % 2 = 0 /\ hist[k - 1].op # 6) => hist[k].at = hist[k - 1].at + 8
    /\ (width = 16 /\ height = 8 /\ map = <<225>> /\ payload = <<5>> /\ pc = "done") =>
          /\ \A o \in Block(16, 0) : frame[o] = Prior(16, 8)[o]
          /\ \A o \in Block(16, 8) : frame[o] = 5

C6_Witness ==
    /\ width = 16 /\ height = 8 /\ map = <<225>> /\ payload = <<5>>
    /\ pc = "done"
    /\ Len(hist) = 2

\* C7: every call with an opcode other than 0x6 returns with the write
\* cursor exactly 8 bytes after its value on entry.
C7_OneBlockAdvance == last.op \notin {-1, 6} => last.after = last.at + 8

\* opcode 0xa in its four-quadrant branch, all 32 bytes read from the payload
C7_Witness ==
    /\ last.op = 10
    /\ ~OverranPayload
    /\ D(last.pData) <= D(last.pData + 1)
    /\ pData = last.pData + 32

\* C8: opcode 0x6, dispatched at a block of the grid that has two blocks
\* after it, reads no payload, stores nothing and leaves the write cursor
\* two blocks further in raster order.
C8_SkipTwoBlocks ==
    (last.op = 6 /\ last.at \in GridOrigins /\ RasterIdx(last.at) + 2 < Xb * Yb) =>
        /\ last.wr = {}
        /\ last.rdData = {}
        /\ last.after = RasterPos(RasterIdx(last.at) + 2)

\* C9: a call of opcode 0x6 that returned on finding the frame complete is
\* the last call of the decode.
C9_EarlyReturnEndsDecode ==
    \A k \in 1..Len(hist) : hist[k].ret => k = Len(hist)

\* C10: at most (width/8)*(height/8) opcodes are dispatched and at most
\* (width/8)*(height/8)/2 map bytes consumed, and the front of the map is
\* never read once the supplied map is used up.
C10_BoundedPass ==
    /\ Len(hist) <= Xb * Yb
    /\ pMap - 1 <= (Xb * Yb) \div 2
    /\ pc = "lo" => pMap <= Len(map)

\* a non-empty opcode map made of opcode 0x1 only (every byte 0x11)
AllUnchangedMap == map # <<>> /\ \A k \in DOMAIN map : map[k] = 17

\* C11: a finished decode of a map made of opcode 0x1 only leaves the
\* destination buffer bitwise identical to the content it held before the
\* decode.
C11_AllUnchangedKeepsPrior ==
    (pc = "done" /\ AllUnchangedMap) => frame = Prior(width, height)

\* an all-0x1 decode of a grid of at least four blocks has finished, one
\* dispatch per block
C11_Witness ==
    /\ pc = "done"
    /\ AllUnchangedMap
    /\ Len(map) >= 2
    /\ Len(hist) = Xb * Yb

\* C11 as stated: a finished decode of a map made of opcode 0x1 only leaves
\* the destination buffer bitwise identical to the historical buffer.
C11_AllUnchangedRoundTrip ==
    (pc = "done" /\ AllUnchangedMap) => frame = back2

\* offset of pixel (r, c) of the 8x8 block whose top-left byte is at o
Pixel(o, r, c) == o + r * width + c

\* the whole 8x8 block whose top-left byte is at o lies inside the buffer
BlockInFrame(o) == \A r \in 0..7, c \in 0..7 : InFrame(Pixel(o, r, c))

\* a payload byte read as a signed 8-bit value
Signed8(b) == IF b >= 128 THEN b - 256 ELSE b

\* the displacement of the copy source of opcodes 0x0, 0x4 and 0x5, from
\* the payload bytes at the payload cursor of the last call
HistDisp ==
    LET B == D(last.pData)
    IN  CASE last.op = 0 -> [x |-> 0, y |-> 0]
          [] last.op = 4 -> [x |-> (B % 16) - 8, y |-> (B \div 16) - 8]
          [] last.op = 5 -> [x |-> Signed8(B), y |-> Signed8(D(last.pData + 1))]

\* C12: after opcode 0x0, 0x4 or 0x5 the 8x8 block at the write cursor of
\* the call holds the 8x8 region of the historical buffer that starts at
\* cursor + x + y*width, with (x, y) = (0, 0) for 0x0, ((B & 15) - 8,
\* (B >> 4) - 8) for 0x4 and the two payload bytes as signed 8-bit values
\* for 0x5.  (Stated of the calls whose payload bytes and source region lie
\* inside the arrays.)
C12_HistoricalCopies ==
    (last.op \in {0, 4, 5} /\ ~OverranPayload) =>
        LET src == last.at + HistDisp.x + HistDisp.y * width
        IN  BlockInFrame(src) =>
               \A r \in 0..7, c \in 0..7 :
                  InFrame(Pixel(last.at, r, c)) =>
                     frame[Pixel(last.at, r, c)] = back2[Pixel(src, r, c)]

\* opcode 0x5 with a negative x displacement, source and destination blocks
\* inside the buffers
C12_Witness ==
    /\ last.op = 5
    /\ ~OverranPayload
    /\ HistDisp.x < 0
    /\ BlockInFrame(last.at + HistDisp.x + HistDisp.y * width)
    /\ BlockInFrame(last.at)

\* number of bytes by which the last call advanced the payload cursor
Consumed == pData - last.pData

\* C13: one call advances the payload cursor by 0 bytes for opcodes 0x0,
\* 0x1 and 0x6, 1 byte for 0x2, 0x3, 0x4 and 0xe, 2 bytes for 0x5 and 0xf,
\* 4 bytes for 0xd, 16 bytes for 0xc, 64 bytes for 0xb, and for 0x7 by 10
\* bytes when P0 <= P1 and by 4 bytes when P0 > P1.
C13_FixedPayloadSizes ==
    /\ last.op \in {0, 1, 6} => Consumed = 0
    /\ last.op \in {2, 3, 4, 14} => Consumed = 1
    /\ last.op \in {5, 15} => Consumed = 2
    /\ last.op = 13 => Consumed = 4
    /\ last.op = 12 => Consumed = 16
    /\ last.op = 11 => Consumed = 64
    /\ last.op = 7 =>
          Consumed = (IF D(last.pData) <= D(last.pData + 1) THEN 10 ELSE 4)

\* opcode 0x7 with P0 > P1, its four bytes read from the payload
C13_Witness ==
    /\ last.op = 7
    /\ ~OverranPayload
    /\ D(last.pData) > D(last.pData + 1)
    /\ Consumed = 4

\* payload byte n (P0, P1, ...) seen by the last call
P(n) == D(last.pData + n)

\* C14: one call of opcode 0x8 advances the payload cursor by 16 bytes in
\* the four-quadrant branch (P0 <= P1) and by 12 bytes in each of the two
\* split branches (P0 > P1).
C14_Op8PayloadSize ==
    (last.op = 8 /\ ~OverranPayload) =>
        Consumed = (IF P(0) <= P(1) THEN 16 ELSE 12)

\* opcode 0x8 in its last branch (P0 > P1, P6 > P7), all bytes read from
\* the payload
C14_Witness ==
    /\ last.op = 8
    /\ ~OverranPayload
    /\ P(0) > P(1)
    /\ P(6) > P(7)
    /\ Consumed = 12

\* C14 as stated: one call of opcode 0x8 advances the payload cursor by
\* between 18 and 20 bytes in every branch.
C14_Op8EighteenToTwenty ==
    (last.op = 8 /\ ~OverranPayload) => Consumed \in 18..20

\* C15: one call of opcode 0x9 advances the payload cursor by 20 bytes when
\* P0 <= P1 and P2 <= P3, by 8 bytes when P0 <= P1 and P2 > P3, and by 12
\* bytes in both branches with P0 > P1.
C15_Op9PayloadSize ==
    (last.op = 9 /\ ~OverranPayload) =>
        Consumed = (IF P(0) <= P(1)
                    THEN (IF P(2) <= P(3) THEN 20 ELSE 8)
                    ELSE 12)

\* opcode 0x9 in its 2x2 branch (P0 <= P1, P2 > P3), all bytes read from
\* the payload
C15_Witness ==
    /\ last.op = 9
    /\ ~OverranPayload
    /\ P(0) <= P(1)
    /\ P(2) > P(3)
    /\ Consumed = 8

\* C15 as stated: 20 bytes when P0 <= P1 and P2 <= P3, 12 bytes when
\* P0 <= P1 and P2 > P3, 12 bytes when P0 > P1 and P2 <= P3, 20 bytes when
\* P0 > P1 and P2 > P3.
C15_Op9TwentyTwelve ==
    (last.op = 9 /\ ~OverranPayload) =>
        Consumed = (IF P(0) <= P(1)
                    THEN (IF P(2) <= P(3) THEN 20 ELSE 12)
                    ELSE (IF P(2) <= P(3) THEN 12 ELSE 20))

\* the far displacement of byte B: x = 8 + B mod 7, y = B div 7 when B < 56,
\* x = -14 + (B-56) mod 29, y = 8 + (B-56) div 29 otherwise, both negated
\* for opcode 0x3
FarDisp(B, op) ==
    LET s == IF op = 2 THEN 1 ELSE -1
    IN  IF B < 56
        THEN [x |-> s * (8 + (B % 7)), y |-> s * (B \div 7)]
        ELSE [x |-> s * (-14 + ((B - 56) % 29)), y |-> s * (8 + ((B - 56) \div 29))]

\* the source of the far copy the last call made
FarSrc == last.at + FarDisp(P(0), last.op).x + FarDisp(P(0), last.op).y * width

\* C16: a call of opcode 0x2 or 0x3 leaves in the 8x8 block at the write
\* cursor the bytes the current buffer held, before the call, in the 8x8
\* block at cursor + x + y*width, (x, y) being the far displacement of the
\* payload byte B (negated for 0x3); relFar gives that displacement for
\* every B in 0..255, and B = 10 under 0x2 gives cursor + 11 + 1*width.
\* (The pixels are compared for payload byte and source block inside the
\* arrays and a source block that shares no byte with the destination
\* block.)
C16_FarOffsetMapping ==
    [][ (Len(hist') = Len(hist) + 1 /\ last'.op \in {2, 3}) =>
          /\ \A B \in 0..255 :
                /\ relFar(B, 1) = FarDisp(B, 2)
                /\ relFar(B, -1) = FarDisp(B, 3)
          /\ FarDisp(10, 2) = [x |-> 11, y |-> 1]
          /\ (/\ last'.pData < Len(payload)
              /\ BlockInFrame(FarSrc')
              /\ Block(width, FarSrc') \cap Block(width, last'.at) = {}) =>
                \A r \in 0..7, c \in 0..7 :
                   InFrame(Pixel(last'.at, r, c)) =>
                      frame'[Pixel(last'.at, r, c)] = frame[Pixel(FarSrc', r, c)]
      ]_vars

\* opcode 0x2 with B = 10 has copied the block at cursor + 11 + width, both
\* blocks inside the buffer and apart
C16_Witness ==
    /\ last.op = 2
    /\ ~OverranPayload
    /\ P(0) = 10
    /\ FarSrc = last.at + 11 + width
    /\ BlockInFrame(FarSrc)
    /\ BlockInFrame(last.at)
    /\ Block(width, FarSrc) \cap Block(width, last.at) = {}

\* C17: after opcode 0xb, pixel (r, c) of the 8x8 block at the write cursor
\* of the call equals payload byte 8*r + c of the 64 bytes consumed.
C17_RawBlock ==
    (last.op = 11 /\ ~OverranPayload) =>
        \A r \in 0..7, c \in 0..7 :
           InFrame(Pixel(last.at, r, c)) =>
              frame[Pixel(last.at, r, c)] = payload[last.pData + 8 * r + c + 1]

\* opcode 0xb has stored 64 payload bytes, not all alike, in a block inside
\* the buffer
C17_Witness ==
    /\ last.op = 11
    /\ ~OverranPayload
    /\ Consumed = 64
    /\ BlockInFrame(last.at)
    /\ P(0) # P(1)

\* C18: after opcode 0xf with payload colours (C0, C1), pixel (r, c) of the
\* 8x8 block at the write cursor of the call is C0 when r + c is even and
\* C1 when r + c is odd.
C18_Checkerboard ==
    (last.op = 15 /\ ~OverranPayload) =>
        \A r \in 0..7, c \in 0..7 :
           InFrame(Pixel(last.at, r, c)) =>
              frame[Pixel(last.at, r, c)] = (IF (r + c) % 2 = 0 THEN P(0) ELSE P(1))

\* opcode 0xf has drawn two different colours in a block inside the buffer
C18_Witness ==
    /\ last.op = 15
    /\ ~OverranPayload
    /\ BlockInFrame(last.at)
    /\ P(0) # P(1)

\* C19: for a width that is a multiple of 16 and a map without opcode 0x6,
\* the low nibble of the i-th map byte of block-row j is dispatched with
\* the write cursor at 8*j*width + 16*i and the high nibble at that offset
\* + 8, the cursor is inside [0, width*height) after every dispatch, and
\* once the 7*width jump has ended a block-row the cursor is at 8*width
\* times the number of block-rows ended.
C19_CursorGridAgreement ==
    (width % 16 = 0 /\ NoSkip) =>
        /\ \A k \in 1..Len(hist) :
              /\ hist[k].mp = hist[k].j * (Xb \div 2) + hist[k].i + 1
              /\ hist[k].at = 8 * hist[k].j * width + 16 * hist[k].i
                                + (IF hist[k].nib = 2 THEN 8 ELSE 0)
              /\ InFrame(hist[k].after)
        /\ ((pc = "lo" /\ i = 0) \/ pc = "done") => pFrame = 8 * j * width

\* a 32x16 frame decoded to the end without opcode 0x6: two block-rows of
\* two map bytes each
C19_Witness ==
    /\ width = 32 /\ height = 16
    /\ NoSkip
    /\ pc = "done"
    /\ Len(hist) = 8

\* C20: a call stores only to bytes cursor + r*width + c with 0 <= r, c < 8
\* (cursor = write cursor on entry): opcodes 0x1 and 0x6 store nothing and
\* leave the buffer as it was, every other opcode stores to all 64 bytes of
\* the block, every destination byte outside the block keeps its value,
\* the steps of decodeFrame8 between two calls change no byte, and the
\* historical buffer never changes.
C20_WriteFootprint ==
    [][ /\ back2' = back2
        /\ Len(hist') = Len(hist) => frame' = frame
        /\ Len(hist') = Len(hist) + 1 =>
              /\ last'.wr \subseteq Block(width, last'.at)
              /\ last'.op \in {1, 6} => (last'.wr = {} /\ frame' = frame)
              /\ last'.op \notin {1, 6} => last'.wr = Block(width, last'.at)
              /\ \A o \in DOMAIN frame \ Block(width, last'.at) : frame'[o] = frame[o]
      ]_vars

\* opcode 0x7 in its row branch (P0 < P1) has stored to the 64 bytes of a
\* block inside the buffer
C20_Witness ==
    /\ last.op = 7
    /\ ~OverranPayload
    /\ P(0) < P(1)
    /\ BlockInFrame(last.at)
    /\ Cardinality(last.wr) = 64
    /\ \E o \in last.wr : frame[o] = P(0)
    /\ \E o \in last.wr : frame[o] = P(1)

\* bit n of the byte v (bit 0 = least significant)
Bit(v, n) == (v \div (2 ^ n)) % 2

\* the byte the last call left at pixel (r, c) of its block
Drawn(r, c) == frame[Pixel(last.at, r, c)]

QuadOf(r, c) == 2 * (c \div 4) + (r \div 4)

\* the colour pair <<first, second>> a bit selects from
Pick(pair, bit) == IF bit = 1 THEN pair[2] ELSE pair[1]

Sel(v, u) == (v \div (4 ^ u)) % 4

C24_OpALayout ==
    (last.op = 10 /\ ~OverranPayload) =>
        LET quads == P(0) <= P(1)
            sides == ~quads /\ P(12) <= P(13)
        IN  /\ Consumed = (IF quads THEN 32 ELSE 24)
            /\ \A r \in 0..7, c \in 0..7 :
                  InFrame(Pixel(last.at, r, c)) =>
                     LET \* first payload byte of the region holding (r, c)
                         b == IF quads THEN 8 * QuadOf(r, c)
                              ELSE IF sides THEN 12 * (c \div 4)
                              ELSE 12 * (r \div 4)
                         \* raster index of (r, c) within its region
                         k == IF quads THEN 4 * (r % 4) + (c % 4)
                              ELSE IF sides THEN 4 * r + (c % 4)
                              ELSE 8 * (r % 4) + c
                     IN  Drawn(r, c) = P(b + Sel(P(b + 4 + (k \div 4)), k % 4))

\* opcode 0xa in its left/right branch has drawn a block inside the buffer
\* whose halves use different colours
C24_Witness ==
    /\ last.op = 10
    /\ ~OverranPayload
    /\ P(0) > P(1)
    /\ P(12) <= P(13)
    /\ Consumed = 24
    /\ BlockInFrame(last.at)
    /\ {P(n) : n \in 0..3} # {P(n) : n \in 12..15}
    /\ {Drawn(r, 0) : r \in 0..7} # {Drawn(r, 4) : r \in 0..7}

\* row r of the 8x8 block whose top-left byte is at o
RowOf(o, r) == {Pixel(o, r, c) : c \in 0..7}

\* C25: for opcodes 0x2 and 0x3, every offset byte and every width that is
\* a multiple of 16 (16 included), whenever the 8x8 source region lies
\* inside the buffer, the block written equals pixel for pixel what the
\* source region held immediately before the call, and the row-by-row copy
\* never reads a byte the same call has already overwritten (no source row
\* shares a byte with a destination row above it).
C25_CopyFidelity ==
    [][ (/\ Len(hist') = Len(hist) + 1
         /\ last'.op \in {2, 3}
         /\ width % 16 = 0
         /\ last'.pData < Len(payload)
         /\ BlockInFrame(last'.at)
         /\ BlockInFrame(FarSrc')) =>
            /\ \A r \in 0..7, c \in 0..7 :
                  frame'[Pixel(last'.at, r, c)] = frame[Pixel(FarSrc', r, c)]
            /\ \A r \in 0..7, s \in 0..7 :
                  r < s => RowOf(last'.at, r) \cap RowOf(FarSrc', s) = {}
      ]_vars

\* C26: for opcodes 0x0, 0x2, 0x3, 0x4 and 0x5, at every block position of
\* the grid and for every offset byte, all 64 bytes read as the copy source
\* lie at offsets inside [0, width*height) of the buffer they are read from.
\* (Stated of the calls whose offset bytes lie inside the payload.)
C26_CopySourceInBounds ==
    (/\ last.op \in {0, 2, 3, 4, 5}
     /\ ~OverranPayload
     /\ last.at \in GridOrigins) =>
        /\ Cardinality(last.rdSrc) = 64
        /\ \A o \in last.rdSrc : InFrame(o)

====
